---- MODULE Spec2Model ----
(***************************************************************************)
(* The asynchronous operation trackers of the ERC20 front-end hooks:       *)
(*   useERC20Deploy        (hooks/useERC20Deploy.ts, lib/deployment.ts)     *)
(*   useERC20Interactions  (hooks/useERC20Interactions.ts)                  *)
(* Every async function is cut at its awaits: one action per synchronous   *)
(* stretch of code, run when the awaited gateway call settles.  The        *)
(* gateways (fetch, publicClient, walletClient) are the environment: their *)
(* answers are drawn from small sets.                                      *)
(***************************************************************************)
EXTENDS Integers, Sequences, FiniteSets, TLC

\* Number of deployToken invocations a behaviour may make.
MaxDeploy == 2
\* Number of operations of useERC20Interactions the component may call in a
\* behaviour (write operations, refetches and getAllowance together).
MaxOps == 2

VARIABLES
    hook,             \* which hook instance the behaviour follows
    privateKey,       \* options.privateKey of useERC20Deploy
    deploymentState,  \* useState<DeploymentState>
    deployError,      \* useState<Error | null> of useERC20Deploy ("error")
    deployCalls,      \* the deployToken invocations, by order of start
    deployLast,       \* the deployToken invocation that completed last
    publicClient,     \* options.publicClient of useERC20Interactions
    walletClient,     \* options.walletClient
    userAddress,      \* options.userAddress
    contractAddress,  \* options.contractAddress
    mounted,          \* the mount effect of useERC20Interactions has run
    ops,              \* number of operations the component has called
    txState,          \* useState<TransactionState>
    txError,          \* useState<Error | null> of useERC20Interactions ("error")
    txCalls,          \* the write-operation invocations, by order of start
    txLast,           \* the write invocation that completed last
    tokenInfo,        \* useState<AsyncState<TokenInfo>>
    infoCalls,        \* the refetchTokenInfo invocations, by order of start
    infoLast,         \* the refetchTokenInfo invocation that completed last
    balance,          \* useState<AsyncState<BalanceInfo>>
    balanceCalls,     \* the refetchBalance invocations, by order of start
    balanceLast,      \* the refetchBalance invocation that completed last
    allowanceCalls,   \* the getAllowance invocations, by order of start
    allowanceLast,    \* the getAllowance invocation that completed last
    call              \* the call of a library function the behaviour follows

deployVars == <<privateKey, deploymentState, deployError, deployCalls, deployLast>>
optionVars == <<publicClient, walletClient, userAddress, contractAddress>>
txVars == <<txState, txError, txCalls, txLast>>
infoVars == <<tokenInfo, infoCalls, infoLast>>
balanceVars == <<balance, balanceCalls, balanceLast>>
allowanceVars == <<allowanceCalls, allowanceLast>>
interactionVars == <<optionVars, mounted, ops, txVars, infoVars, balanceVars, allowanceVars>>
vars == <<hook, call, deployVars, interactionVars>>

(***************************************************************************)
(* JavaScript values                                                       *)
(***************************************************************************)
Undefined == [t |-> "undefined"]
Null == [t |-> "null"]
Str(s) == [t |-> "string", s |-> s]
\* a string value that differs from one invocation's answer to the next
StrOf(s, i) == [t |-> "string", s |-> s, id |-> i]
Bool(b) == [t |-> "boolean", b |-> b]
\* a client object handed to the hook by wagmi
Client == [t |-> "object"]

\* ToBoolean(v) = false
Falsy(v) ==
    \/ v.t = "undefined"
    \/ v.t = "null"
    \/ (v.t = "string" /\ v.s = "")
    \/ (v.t = "boolean" /\ ~v.b)

\* new Error(message), allocated by invocation ref
NewError(message, ref) == [t |-> "Error", message |-> message, ref |-> ref]

InstanceofError(v) == v.t = "Error"

\* String(v)
String(v) ==
    CASE v.t = "string" -> v.s
      [] v.t = "undefined" -> "undefined"
      [] v.t = "null" -> "null"
      [] v.t = "boolean" -> (IF v.b THEN "true" ELSE "false")
      [] v.t = "Error" -> v.message
      [] OTHER -> "[object Object]"

\* A mutant: the caught value is passed on as it is.
NormalizeErrorKeepsCause(err, ref) == err

\* err instanceof Error ? err : new Error(String(err))
NormalizeError(err, ref) ==
    IF InstanceofError(err) THEN err ELSE NewError(String(err), ref)

\* What a gateway call of invocation i may reject with: an Error, or a value
\* that is no Error.
Causes(i) ==
    { NewError("gateway failure", i),
      [t |-> "object", id |-> i] }

\* What a read of invocation i may reject with: publicClient.readContract
\* rejects with an Error of viem.
ReadCauses(i) == { NewError("gateway failure", i) }

(***************************************************************************)
(* lib/deployment.ts: deployERC20TokenViaAPI                               *)
(***************************************************************************)
NoBody == [t |-> "none"]
Unparsable == [t |-> "unparsable"]

JsonObject(error, tokenAddress, txHash, success, deployOutput, initOutput, registerOutput) ==
    [t |-> "object",
     error |-> error, tokenAddress |-> tokenAddress, txHash |-> txHash,
     success |-> success, deployOutput |-> deployOutput,
     initOutput |-> initOutput, registerOutput |-> registerOutput]

\* Bodies the deployment service may send with a non-2xx status.
ErrBodies ==
    { Unparsable, Null,
      JsonObject(Str("insufficient funds"), Undefined, Undefined, Undefined, Undefined, Undefined, Undefined),
      JsonObject(Str(""), Undefined, Undefined, Undefined, Undefined, Undefined, Undefined),
      JsonObject(Undefined, Undefined, Undefined, Bool(FALSE), Undefined, Undefined, Undefined) }

\* Bodies the deployment service may send with a 2xx status to invocation i.
OkBodies(i) ==
    { Unparsable, Null,
      JsonObject(Undefined, StrOf("0xToken", i), StrOf("0xTx", i), Bool(TRUE), Str("deployed"), Str("initialized"), Str("registered")),
      JsonObject(Undefined, StrOf("0xToken", i), Undefined, Bool(TRUE), Str("deployed"), Undefined, Undefined),
      JsonObject(Undefined, StrOf("0xToken", i), Str(""), Bool(FALSE), Undefined, Undefined, Undefined) }

ErrStatuses == {400, 500}

\* `Deployment failed with status ${response.status}`
StatusMessage(status) ==
    CASE status = 400 -> "Deployment failed with status 400"
      [] status = 500 -> "Deployment failed with status 500"
      [] OTHER -> "Deployment failed with status 200"

\* A mutant: the service's message is replaced by the status line.
ErrorResponseThrowsStatusOnly(body, status, ref) == NewError(StatusMessage(status), ref)

\* The value thrown for a response with !response.ok, its body read with
\* response.json().catch(() => ({ error: 'Unknown error' })).
ErrorResponseThrows(body, status, ref) ==
    LET errorData == IF body = Unparsable
                     THEN JsonObject(Str("Unknown error"), Undefined, Undefined, Undefined, Undefined, Undefined, Undefined)
                     ELSE body
    IN  IF errorData.t = "null"
        THEN NewError("TypeError: Cannot read properties of null", ref)
        ELSE IF Falsy(errorData.error)
             THEN NewError(StatusMessage(status), ref)
             ELSE NewError(String(errorData.error), ref)

NoResult == [t |-> "none"]

\* The DeployTokenResult built from a parsed 2xx body.
DeployResult(result) ==
    [t |-> "DeployTokenResult",
     tokenAddress |-> result.tokenAddress,
     txHash |-> IF Falsy(result.txHash) THEN Str("0x") ELSE result.txHash,
     success |-> result.success,
     deployOutput |-> result.deployOutput,
     initOutput |-> result.initOutput,
     registerOutput |-> result.registerOutput]


(***************************************************************************)
(* Invocations.  A hook's callback may be called again while earlier calls *)
(* are still awaiting; each tracker keeps its invocations by order of      *)
(* start, and remembers of the completed ones only the last.               *)
(***************************************************************************)
InFlight(calls, i) == calls[i].pc \notin {"unused", "done"}
Unused(calls) == {i \in DOMAIN calls : calls[i].pc = "unused"}
\* The id the next invocation gets.
NextId(calls) == CHOOSE i \in Unused(calls) : \A j \in Unused(calls) : i <= j

\* The invocations after the next one has started as slot; overlapped marks
\* the invocations that were in flight together with another one.
WithStart(calls, slot) ==
    [j \in DOMAIN calls |->
        IF j = NextId(calls)
        THEN [slot EXCEPT !.overlapped = \E k \in DOMAIN calls : InFlight(calls, k)]
        ELSE IF InFlight(calls, j)
             THEN [calls[j] EXCEPT !.overlapped = TRUE]
             ELSE calls[j]]

\* No invocation has completed yet.
NoLast == [id |-> 0]

(***************************************************************************)
(* hooks/useERC20Deploy.ts                                                 *)
(***************************************************************************)
DeployIds == 1..MaxDeploy

DeployIdle == [status |-> "idle"]
DeployDeploying == [status |-> "deploying"]
DeploySuccess(result) == [status |-> "success", result |-> result]
DeployFailed(error) == [status |-> "error", error |-> error]

isDeploying ==
    \/ deploymentState.status = "deploying"
    \/ deploymentState.status = "activating"
    \/ deploymentState.status = "initializing"
    \/ deploymentState.status = "registering"

\* A deployToken invocation that has not been made yet: where it stands (pc),
\* the gateway requests it issued, the states it wrote, the response it got.
DeployUnused ==
    [pc |-> "unused", outcome |-> "none", issued |-> <<>>, wrote |-> <<>>,
     ok |-> FALSE, status |-> 0, overlapped |-> FALSE]

DeployDone(outcome) == [DeployUnused EXCEPT !.pc = "done", !.outcome = outcome]

\* A mutant: the first failure of an invocation sends its request once more.
DeployCatchRetriesOnce(i, err, body) ==
    IF Len(deployCalls[i].issued) = 1
    THEN /\ deployCalls' = [deployCalls EXCEPT ![i] =
               [@ EXCEPT !.pc = "fetch", !.issued = Append(@, "POST /deploy-token")]]
         /\ UNCHANGED <<deployError, deploymentState, deployLast>>
    ELSE LET error == NormalizeError(err, i)
         IN  /\ deployError' = error
             /\ deploymentState' = DeployFailed(error)
             /\ deployCalls' = [deployCalls EXCEPT ![i] = DeployDone("threw")]
             /\ deployLast' =
                   [id |-> i, outcome |-> "threw", issued |-> deployCalls[i].issued,
                    wrote |-> Append(deployCalls[i].wrote, DeployFailed(error)),
                    overlapped |-> deployCalls[i].overlapped, body |-> body,
                    status |-> deployCalls[i].status, value |-> NoResult,
                    cause |-> err, thrown |-> error]

\* The catch block of deployToken, run for invocation i with the caught value
\* err: lines 51-56.
DeployCatch(i, err, body) ==
    LET error == NormalizeError(err, i)
    IN  /\ deployError' = error
        /\ deploymentState' = DeployFailed(error)
        /\ deployCalls' = [deployCalls EXCEPT ![i] = DeployDone("threw")]
        /\ deployLast' =
              [id |-> i, outcome |-> "threw", issued |-> deployCalls[i].issued,
               wrote |-> Append(deployCalls[i].wrote, DeployFailed(error)),
               overlapped |-> deployCalls[i].overlapped, body |-> body,
               status |-> deployCalls[i].status, value |-> NoResult,
               cause |-> err, thrown |-> error]

\* deployToken(params) without a private key: lines 32-34.
DeployTokenRefused(i) ==
    /\ deployCalls' = [deployCalls EXCEPT ![i] = DeployDone("refused")]
    /\ deployLast' =
          [id |-> i, outcome |-> "refused", issued |-> <<>>, wrote |-> <<>>,
           overlapped |-> FALSE, body |-> NoBody, status |-> 0, value |-> NoResult,
           cause |-> Null,
           thrown |-> NewError("Private key is required for deployment", i)]
    /\ UNCHANGED <<deployError, deploymentState>>

\* A mutant: a call made while a deployment is under way is turned away.
DeployTokenUnlessBusy(i) ==
    /\ hook = "deploy"
    /\ Unused(deployCalls) # {}
    /\ i = NextId(deployCalls)
    /\ IF Falsy(privateKey) \/ isDeploying
       THEN DeployTokenRefused(i)
       ELSE /\ deployError' = Null
            /\ deploymentState' = DeployDeploying
            /\ deployCalls' = WithStart(deployCalls,
                  [DeployUnused EXCEPT !.pc = "fetch", !.issued = <<"POST /deploy-token">>,
                                       !.wrote = <<DeployDeploying>>])
            /\ UNCHANGED deployLast
    /\ UNCHANGED <<hook, call, privateKey, interactionVars>>

\* deployToken(params), up to its first await: the fetch of deployERC20TokenViaAPI.
DeployToken(i) ==
    /\ hook = "deploy"
    /\ Unused(deployCalls) # {}
    /\ i = NextId(deployCalls)
    /\ IF Falsy(privateKey)
       THEN DeployTokenRefused(i)
       ELSE /\ deployError' = Null
            /\ deploymentState' = DeployDeploying
            /\ deployCalls' = WithStart(deployCalls,
                  [DeployUnused EXCEPT !.pc = "fetch", !.issued = <<"POST /deploy-token">>,
                                       !.wrote = <<DeployDeploying>>])
            /\ UNCHANGED deployLast
    /\ UNCHANGED <<hook, call, privateKey, interactionVars>>

\* The fetch of invocation i rejects: deployERC20TokenViaAPI rejects with the
\* same value and deployToken catches it.
FetchRejects(i) ==
    /\ deployCalls[i].pc = "fetch"
    /\ \E cause \in Causes(i) : DeployCatch(i, cause, NoBody)
    /\ UNCHANGED <<hook, call, privateKey, interactionVars>>

\* A mutant: once the response has arrived the state moves on to a sub-stage.
FetchResolvesActivating(i) ==
    /\ deployCalls[i].pc = "fetch"
    /\ deploymentState' = [status |-> "activating"]
    /\ \E ok \in BOOLEAN :
         \E status \in (IF ok THEN {200} ELSE ErrStatuses) :
            deployCalls' = [deployCalls EXCEPT ![i] =
                [@ EXCEPT !.pc = "json", !.ok = ok, !.status = status]]
    /\ UNCHANGED <<hook, call, privateKey, deployError, deployLast, interactionVars>>

\* The fetch of invocation i resolves with a response; its body is awaited next
\* (response.json() on either branch of `if (!response.ok)`).
FetchResolves(i) ==
    /\ deployCalls[i].pc = "fetch"
    /\ \E ok \in BOOLEAN :
         \E status \in (IF ok THEN {200} ELSE ErrStatuses) :
            deployCalls' = [deployCalls EXCEPT ![i] =
                [@ EXCEPT !.pc = "json", !.ok = ok, !.status = status]]
    /\ UNCHANGED <<hook, call, privateKey, deploymentState, deployError, deployLast, interactionVars>>

\* A mutant: the success state is set without the result.
DeployResolveOmitsResult(i, result, body) ==
    /\ deploymentState' = DeploySuccess(NoResult)
    /\ deployCalls' = [deployCalls EXCEPT ![i] = DeployDone("returned")]
    /\ deployLast' =
          [id |-> i, outcome |-> "returned", issued |-> deployCalls[i].issued,
           wrote |-> Append(deployCalls[i].wrote, DeploySuccess(NoResult)),
           overlapped |-> deployCalls[i].overlapped, body |-> body,
           status |-> deployCalls[i].status, value |-> result,
           cause |-> Null, thrown |-> Null]
    /\ UNCHANGED deployError

\* deployToken after its await resolved with result: lines 49-50.
DeployResolve(i, result, body) ==
    /\ deploymentState' = DeploySuccess(result)
    /\ deployCalls' = [deployCalls EXCEPT ![i] = DeployDone("returned")]
    /\ deployLast' =
          [id |-> i, outcome |-> "returned", issued |-> deployCalls[i].issued,
           wrote |-> Append(deployCalls[i].wrote, DeploySuccess(result)),
           overlapped |-> deployCalls[i].overlapped, body |-> body,
           status |-> deployCalls[i].status, value |-> result,
           cause |-> Null, thrown |-> Null]
    /\ UNCHANGED deployError

\* The body of a non-2xx response has been read (or could not be parsed).
ErrorBodySettles(i) ==
    /\ deployCalls[i].pc = "json"
    /\ ~deployCalls[i].ok
    /\ \E body \in ErrBodies :
         DeployCatch(i, ErrorResponseThrows(body, deployCalls[i].status, i), body)
    /\ UNCHANGED <<hook, call, privateKey, interactionVars>>

\* The body of a 2xx response has been read (or could not be parsed).
OkBodySettles(i) ==
    /\ deployCalls[i].pc = "json"
    /\ deployCalls[i].ok
    /\ \E body \in OkBodies(i) :
         IF body = Unparsable
         THEN DeployCatch(i, NewError("SyntaxError: Unexpected token", i), body)
         ELSE IF body.t = "null"
              THEN DeployCatch(i, NewError("TypeError: Cannot read properties of null", i), body)
              ELSE DeployResolve(i, DeployResult(body), body)
    /\ UNCHANGED <<hook, call, privateKey, interactionVars>>

\* A mutant: reset leaves the recorded error in place.
ResetKeepsError ==
    /\ hook = "deploy"
    /\ deploymentState' = DeployIdle
    /\ UNCHANGED <<hook, call, privateKey, deployError, deployCalls, deployLast, interactionVars>>

\* reset(): lines 59-62.
Reset ==
    /\ hook = "deploy"
    /\ deploymentState' = DeployIdle
    /\ deployError' = Null
    /\ UNCHANGED <<hook, call, privateKey, deployCalls, deployLast, interactionVars>>

(***************************************************************************)
(* hooks/useERC20Interactions.ts: the read trackers                        *)
(***************************************************************************)
\* A read tracker runs once for the mount effect and at most once for each
\* operation the component calls.
InfoIds == 1..(MaxOps + 1)
BalanceIds == 1..(MaxOps + 1)
AllowanceIds == 1..MaxOps
TxIds == 1..MaxOps

\* options.contractAddress: the token the hook is first rendered for, and the
\* tokens a later render may name.
ContractAddress == Str("0xContract")
ContractAddresses == {ContractAddress, Str("0xOther")}

AsyncIdle == [status |-> "idle"]
AsyncLoading == [status |-> "loading"]
AsyncSuccess(data) == [status |-> "success", data |-> data]
AsyncError(error) == [status |-> "error", error |-> error]

\* The six reads refetchTokenInfo hands to Promise.all, in the order of the array.
TokenInfoReads == <<"name", "symbol", "decimals", "totalSupply", "owner", "paused">>

\* An invocation of a read operation that has not been made yet; remaining is
\* Promise.all's count of inputs not yet fulfilled, address and account are
\* the contractAddress and userAddress its callback closed over.
ReadUnused ==
    [pc |-> "unused", outcome |-> "none", issued |-> <<>>, wrote |-> <<>>,
     remaining |-> 0, overlapped |-> FALSE, address |-> Undefined,
     account |-> Undefined]

ReadDone(outcome) == [ReadUnused EXCEPT !.pc = "done", !.outcome = outcome]

\* A read invocation that has issued its gateway calls and awaits them.
ReadStarted(issued, wrote) ==
    [ReadUnused EXCEPT !.pc = "read", !.issued = issued, !.wrote = wrote,
                       !.remaining = Len(issued)]

\* What is remembered of read invocation i of calls once it has completed.
ReadLast(calls, i, outcome, written, thrown) ==
    [id |-> i, outcome |-> outcome, issued |-> calls[i].issued,
     wrote |-> calls[i].wrote \o written, overlapped |-> calls[i].overlapped,
     thrown |-> thrown, address |-> calls[i].address, account |-> calls[i].account]

\* refetchTokenInfo() of a render with public client client and contract
\* address contract, up to its await: lines 35-70.
InfoCallsAfter(client, contract) ==
    IF Falsy(client)
    THEN [infoCalls EXCEPT ![NextId(infoCalls)] = ReadDone("skipped")]
    ELSE WithStart(infoCalls,
            [ReadStarted(TokenInfoReads, <<AsyncLoading>>) EXCEPT !.address = contract])

TokenInfoAfter(client) == IF Falsy(client) THEN tokenInfo ELSE AsyncLoading

InfoLastAfter(client) ==
    IF Falsy(client)
    THEN ReadLast(infoCalls, NextId(infoCalls), "skipped", <<>>, Null)
    ELSE infoLast

\* refetchTokenInfo() of the current render.
InfoCallsAfterRefetch == InfoCallsAfter(publicClient, contractAddress)
TokenInfoAfterRefetch == TokenInfoAfter(publicClient)
InfoLastAfterRefetch == InfoLastAfter(publicClient)

\* refetchBalance() of a render with public client client, contract address
\* contract and user address address, up to its await: lines 92-103.
BalanceCallsAfter(client, contract, address) ==
    IF Falsy(client) \/ Falsy(address)
    THEN [balanceCalls EXCEPT ![NextId(balanceCalls)] = ReadDone("skipped")]
    ELSE WithStart(balanceCalls,
            [ReadStarted(<<"balanceOf">>, <<AsyncLoading>>)
                EXCEPT !.address = contract, !.account = address])

\* A mutant: without its parameters refetchBalance returns at once.
BalanceAfterKeepsState(client, address) ==
    IF Falsy(client) \/ Falsy(address) THEN balance ELSE AsyncLoading

BalanceAfter(client, address) ==
    IF Falsy(client) \/ Falsy(address) THEN AsyncIdle ELSE AsyncLoading

BalanceLastAfter(client, address) ==
    IF Falsy(client) \/ Falsy(address)
    THEN ReadLast(balanceCalls, NextId(balanceCalls), "skipped", <<AsyncIdle>>, Null)
    ELSE balanceLast

\* refetchBalance() of the current render.
BalanceCallsAfterRefetch == BalanceCallsAfter(publicClient, contractAddress, userAddress)
BalanceAfterRefetch == BalanceAfter(publicClient, userAddress)
BalanceLastAfterRefetch == BalanceLastAfter(publicClient, userAddress)

\* useEffect(() => { refetchTokenInfo(); refetchBalance(); }, ...) on mount.
Mount ==
    /\ hook = "interactions"
    /\ ~mounted
    /\ mounted' = TRUE
    /\ infoCalls' = InfoCallsAfterRefetch
    /\ tokenInfo' = TokenInfoAfterRefetch
    /\ infoLast' = InfoLastAfterRefetch
    /\ balanceCalls' = BalanceCallsAfterRefetch
    /\ balance' = BalanceAfterRefetch
    /\ balanceLast' = BalanceLastAfterRefetch
    /\ UNCHANGED <<hook, call, deployVars, optionVars, ops, txVars, allowanceVars>>

\* The component renders the hook again with other options.  refetchTokenInfo
\* is made anew when publicClient or contractAddress changed and
\* refetchBalance when publicClient, contractAddress or userAddress changed
\* (their useCallback dependencies), and then the effect of lines 118-121 runs
\* again with the new callbacks.
OptionsChange ==
    /\ hook = "interactions"
    /\ mounted
    /\ ops < MaxOps
    /\ ops' = ops + 1
    /\ \E client \in {Undefined, Client}, wallet \in {Undefined, Client},
          address \in {Undefined, Str("0xUser")}, contract \in ContractAddresses :
          /\ <<client, wallet, address, contract>> # optionVars
          /\ publicClient' = client
          /\ walletClient' = wallet
          /\ userAddress' = address
          /\ contractAddress' = contract
          /\ IF client # publicClient \/ address # userAddress \/ contract # contractAddress
             THEN /\ infoCalls' = InfoCallsAfter(client, contract)
                  /\ tokenInfo' = TokenInfoAfter(client)
                  /\ infoLast' = InfoLastAfter(client)
                  /\ balanceCalls' = BalanceCallsAfter(client, contract, address)
                  /\ balance' = BalanceAfter(client, address)
                  /\ balanceLast' = BalanceLastAfter(client, address)
             ELSE UNCHANGED <<infoVars, balanceVars>>
    /\ UNCHANGED <<hook, call, deployVars, mounted, txVars, allowanceVars>>

\* refetchTokenInfo() called by the component.
RefetchTokenInfo ==
    /\ hook = "interactions"
    /\ mounted
    /\ ops < MaxOps
    /\ ops' = ops + 1
    /\ infoCalls' = InfoCallsAfterRefetch
    /\ tokenInfo' = TokenInfoAfterRefetch
    /\ infoLast' = InfoLastAfterRefetch
    /\ UNCHANGED <<hook, call, deployVars, optionVars, mounted, txVars, balanceVars, allowanceVars>>

\* Invocation i of refetchTokenInfo once it is over: its closure keeps the
\* contract address it read from.
InfoDone(i, outcome) == [ReadDone(outcome) EXCEPT !.address = infoCalls[i].address]

\* The value the read fn of invocation i resolved with.
ReadResult(fn, i) == [t |-> "read", fn |-> fn, id |-> i]

\* The snapshot built from the six values Promise.all delivered to invocation
\* i: lines 74-83.
TokenSnapshot(i) ==
    [address |-> infoCalls[i].address,
     name |-> ReadResult("name", i),
     symbol |-> ReadResult("symbol", i),
     decimals |-> ReadResult("decimals", i),
     totalSupply |-> ReadResult("totalSupply", i),
     formattedTotalSupply |->
        [t |-> "formatUnits", value |-> ReadResult("totalSupply", i),
         decimals |-> ReadResult("decimals", i)],
     owner |-> ReadResult("owner", i),
     paused |-> ReadResult("paused", i)]

\* A mutant: the snapshot is set as soon as a read is fulfilled.
InfoReadResolvesEagerly(i) ==
    /\ infoCalls[i].pc = "read"
    /\ tokenInfo' = AsyncSuccess(TokenSnapshot(i))
    /\ IF infoCalls[i].remaining > 1
       THEN /\ infoCalls' = [infoCalls EXCEPT ![i].remaining = @ - 1]
            /\ UNCHANGED infoLast
       ELSE /\ infoCalls' = [infoCalls EXCEPT ![i] = InfoDone(i, "success")]
            /\ infoLast' = ReadLast(infoCalls, i, "success",
                                    <<AsyncSuccess(TokenSnapshot(i))>>, Null)
    /\ UNCHANGED <<hook, call, deployVars, optionVars, mounted, ops, txVars, balanceVars, allowanceVars>>

\* One read of invocation i is fulfilled; with the last one Promise.all is
\* fulfilled and lines 72-84 run.
InfoReadResolves(i) ==
    /\ infoCalls[i].pc = "read"
    /\ IF infoCalls[i].remaining > 1
       THEN /\ infoCalls' = [infoCalls EXCEPT ![i].remaining = @ - 1]
            /\ UNCHANGED <<tokenInfo, infoLast>>
       ELSE /\ tokenInfo' = AsyncSuccess(TokenSnapshot(i))
            /\ infoCalls' = [infoCalls EXCEPT ![i] = InfoDone(i, "success")]
            /\ infoLast' = ReadLast(infoCalls, i, "success",
                                    <<AsyncSuccess(TokenSnapshot(i))>>, Null)
    /\ UNCHANGED <<hook, call, deployVars, optionVars, mounted, ops, txVars, balanceVars, allowanceVars>>

\* One read of invocation i is rejected: Promise.all rejects and line 86 runs.
InfoReadRejects(i) ==
    /\ infoCalls[i].pc = "read"
    /\ \E cause \in ReadCauses(i) :
         LET error == NormalizeError(cause, i)
         IN  /\ tokenInfo' = AsyncError(error)
             /\ infoCalls' = [infoCalls EXCEPT ![i] = InfoDone(i, "error")]
             /\ infoLast' = ReadLast(infoCalls, i, "error", <<AsyncError(error)>>, error)
    /\ UNCHANGED <<hook, call, deployVars, optionVars, mounted, ops, txVars, balanceVars, allowanceVars>>

\* refetchBalance() called by the component.
RefetchBalance ==
    /\ hook = "interactions"
    /\ mounted
    /\ ops < MaxOps
    /\ ops' = ops + 1
    /\ balanceCalls' = BalanceCallsAfterRefetch
    /\ balance' = BalanceAfterRefetch
    /\ balanceLast' = BalanceLastAfterRefetch
    /\ UNCHANGED <<hook, call, deployVars, optionVars, mounted, txVars, infoVars, allowanceVars>>

\* The balance record built from the value balanceOf delivered to invocation i.
BalanceSnapshot(i) == [reads |-> i]

\* A mutant: a result is dropped when a later refetchBalance has started.
BalanceReadResolvesIfLatest(i) ==
    /\ balanceCalls[i].pc = "read"
    /\ balance' = IF \E j \in BalanceIds : j > i /\ balanceCalls[j].pc # "unused"
                  THEN balance
                  ELSE AsyncSuccess(BalanceSnapshot(i))
    /\ balanceCalls' = [balanceCalls EXCEPT ![i] = ReadDone("success")]
    /\ balanceLast' = ReadLast(balanceCalls, i, "success",
                               <<AsyncSuccess(BalanceSnapshot(i))>>, Null)
    /\ UNCHANGED <<hook, call, deployVars, optionVars, mounted, ops, txVars, infoVars, allowanceVars>>

\* The balanceOf read of invocation i is fulfilled: lines 105-111.
BalanceReadResolves(i) ==
    /\ balanceCalls[i].pc = "read"
    /\ balance' = AsyncSuccess(BalanceSnapshot(i))
    /\ balanceCalls' = [balanceCalls EXCEPT ![i] = ReadDone("success")]
    /\ balanceLast' = ReadLast(balanceCalls, i, "success",
                               <<AsyncSuccess(BalanceSnapshot(i))>>, Null)
    /\ UNCHANGED <<hook, call, deployVars, optionVars, mounted, ops, txVars, infoVars, allowanceVars>>

\* The balanceOf read of invocation i is rejected: line 113.
BalanceReadRejects(i) ==
    /\ balanceCalls[i].pc = "read"
    /\ \E cause \in ReadCauses(i) :
         LET error == NormalizeError(cause, i)
         IN  /\ balance' = AsyncError(error)
             /\ balanceCalls' = [balanceCalls EXCEPT ![i] = ReadDone("error")]
             /\ balanceLast' = ReadLast(balanceCalls, i, "error", <<AsyncError(error)>>, error)
    /\ UNCHANGED <<hook, call, deployVars, optionVars, mounted, ops, txVars, infoVars, allowanceVars>>

\* A mutant: the read is issued before the options are looked at.
GetAllowanceRefusedAfterRead(i) ==
    /\ allowanceCalls' = [allowanceCalls EXCEPT ![i] = ReadDone("refused")]
    /\ allowanceLast' =
          [id |-> i, outcome |-> "refused", issued |-> <<"allowance">>, wrote |-> <<>>,
           overlapped |-> FALSE,
           thrown |-> NewError("Public client and user address are required", i)]

\* getAllowance(spender) without a public client or a user address: lines 125-127.
GetAllowanceRefused(i) ==
    /\ allowanceCalls' = [allowanceCalls EXCEPT ![i] = ReadDone("refused")]
    /\ allowanceLast' =
          [id |-> i, outcome |-> "refused", issued |-> <<>>, wrote |-> <<>>,
           overlapped |-> FALSE,
           thrown |-> NewError("Public client and user address are required", i)]

\* getAllowance(spender), up to its await.
GetAllowance(i) ==
    /\ hook = "interactions"
    /\ mounted
    /\ ops < MaxOps
    /\ ops' = ops + 1
    /\ i = NextId(allowanceCalls)
    /\ IF Falsy(publicClient) \/ Falsy(userAddress)
       THEN GetAllowanceRefused(i)
       ELSE /\ allowanceCalls' = WithStart(allowanceCalls, ReadStarted(<<"allowance">>, <<>>))
            /\ UNCHANGED allowanceLast
    /\ UNCHANGED <<hook, call, deployVars, optionVars, mounted, txVars, infoVars, balanceVars>>

\* The allowance read of invocation i settles: getAllowance returns the
\* AllowanceInfo, or rejects with what the read rejected with.
AllowanceReadSettles(i) ==
    /\ allowanceCalls[i].pc = "read"
    /\ \/ /\ allowanceCalls' = [allowanceCalls EXCEPT ![i] = ReadDone("returned")]
          /\ allowanceLast' = ReadLast(allowanceCalls, i, "returned", <<>>, Null)
       \/ \E cause \in ReadCauses(i) :
          /\ allowanceCalls' = [allowanceCalls EXCEPT ![i] = ReadDone("threw")]
          /\ allowanceLast' = ReadLast(allowanceCalls, i, "threw", <<>>, cause)
    /\ UNCHANGED <<hook, call, deployVars, optionVars, mounted, ops, txVars, infoVars, balanceVars>>

(***************************************************************************)
(* hooks/useERC20Interactions.ts: the write operations                     *)
(***************************************************************************)
TxIdle == [status |-> "idle"]
TxPending == [status |-> "pending"]
TxConfirming(hash) == [status |-> "confirming", hash |-> hash]
TxSuccess(hash) == [status |-> "success", hash |-> hash]
TxFailed(error) == [status |-> "error", error |-> error]

isLoading == txState.status = "pending" \/ txState.status = "confirming"

NoHash == [t |-> "none"]
\* The transaction hash writeContract returns to invocation i.
Hash(i) == [t |-> "hash", id |-> i]

\* A write invocation that has not been made yet; refetch is what the write
\* operation calls once executeTransaction has returned.
TxUnused ==
    [pc |-> "unused", outcome |-> "none", refetch |-> {}, issued |-> <<>>,
     wrote |-> <<>>, hash |-> NoHash, overlapped |-> FALSE]

TxDone(outcome) == [TxUnused EXCEPT !.pc = "done", !.outcome = outcome]

\* The amount strings a caller may pass, as their characters.
Amounts == { <<"5", ".", "5">>, <<"1", "0">>, <<"a", "b", "c">>, <<"1", ".", "2", ".", "3">> }
Digits == {"0", "1", "2", "3", "4", "5", "6", "7", "8", "9"}

\* viem's parseUnits accepts /^(-?)([0-9]*)\.?([0-9]*)$/ and throws otherwise.
IsDecimalNumber(amount) ==
    LET body == IF Len(amount) > 0 /\ amount[1] = "-" THEN Tail(amount) ELSE amount
    IN  /\ \A k \in 1..Len(body) : body[k] \in Digits \cup {"."}
        /\ Cardinality({k \in 1..Len(body) : body[k] = "."}) <= 1

\* The write operations that parse an amount before executeTransaction.
TakesAmount(fn) == fn \in {"transfer", "approve", "transferFrom", "mint", "burn"}

\* A mutant: mint and burn re-read the balance only.
RefetchesBalanceOnly(fn) ==
    CASE fn \in {"transfer", "transferFrom", "mint", "burn"} -> {"balance"}
      [] fn \in {"pause", "unpause", "transferOwnership"} -> {"tokenInfo"}
      [] OTHER -> {}

\* The re-reads a write operation makes once executeTransaction returned.
Refetches(fn) ==
    CASE fn \in {"transfer", "transferFrom"} -> {"balance"}
      [] fn \in {"mint", "burn"} -> {"tokenInfo", "balance"}
      [] fn \in {"pause", "unpause", "transferOwnership"} -> {"tokenInfo"}
      [] OTHER -> {}

\* A mutant: a refused write operation is recorded as a failed transaction.
WriteRefusedFails(i, message) ==
    /\ txCalls' = [txCalls EXCEPT ![i] = TxDone("refused")]
    /\ txLast' =
          [id |-> i, outcome |-> "refused", issued |-> <<>>, wrote |-> <<>>,
           overlapped |-> FALSE, value |-> NoHash, cause |-> Null,
           thrown |-> NewError(message, i)]
    /\ txError' = NewError(message, i)
    /\ txState' = TxFailed(NewError(message, i))

\* parseUnits(amount, TOKEN_DECIMALS) threw, or executeTransaction was called
\* without a wallet client or a public client (lines 146-148).
WriteRefused(i, message) ==
    /\ txCalls' = [txCalls EXCEPT ![i] = TxDone("refused")]
    /\ txLast' =
          [id |-> i, outcome |-> "refused", issued |-> <<>>, wrote |-> <<>>,
           overlapped |-> FALSE, value |-> NoHash, cause |-> Null,
           thrown |-> NewError(message, i)]
    /\ UNCHANGED <<txState, txError>>

\* A mutant: the failure is recorded but the invocation goes on with its steps.
TxCatchKeepsGoing(i, err) ==
    LET error == NormalizeError(err, i)
    IN  /\ txError' = error
        /\ txState' = TxFailed(error)
        /\ txCalls' = [txCalls EXCEPT ![i] =
              [@ EXCEPT !.pc = IF @ = "simulate" THEN "write" ELSE "wait",
                        !.wrote = Append(@, TxFailed(error))]]
        /\ txLast' =
              [id |-> i, outcome |-> "threw", issued |-> txCalls[i].issued,
               wrote |-> Append(txCalls[i].wrote, TxFailed(error)),
               overlapped |-> txCalls[i].overlapped, value |-> NoHash,
               cause |-> err, thrown |-> error]

\* A mutant: the caught value is thrown again without being recorded.
TxCatchRethrowsOnly(i, err) ==
    LET error == NormalizeError(err, i)
    IN  /\ UNCHANGED <<txError, txState>>
        /\ txCalls' = [txCalls EXCEPT ![i] = TxDone("threw")]
        /\ txLast' =
              [id |-> i, outcome |-> "threw", issued |-> txCalls[i].issued,
               wrote |-> txCalls[i].wrote,
               overlapped |-> txCalls[i].overlapped, value |-> NoHash,
               cause |-> err, thrown |-> error]

\* The catch block of executeTransaction, run for invocation i: lines 170-175.
TxCatch(i, err) ==
    LET error == NormalizeError(err, i)
    IN  /\ txError' = error
        /\ txState' = TxFailed(error)
        /\ txCalls' = [txCalls EXCEPT ![i] = TxDone("threw")]
        /\ txLast' =
              [id |-> i, outcome |-> "threw", issued |-> txCalls[i].issued,
               wrote |-> Append(txCalls[i].wrote, TxFailed(error)),
               overlapped |-> txCalls[i].overlapped, value |-> NoHash,
               cause |-> err, thrown |-> error]

\* One of transfer, approve, ..., up to the first await of executeTransaction
\* (the simulation): lines 146-161.
WriteOperation(fn, amount) ==
    /\ hook = "interactions"
    /\ mounted
    /\ ops < MaxOps
    /\ ops' = ops + 1
    /\ LET i == NextId(txCalls)
       IN  IF TakesAmount(fn) /\ ~IsDecimalNumber(amount)
           THEN WriteRefused(i, "InvalidDecimalNumberError")
           ELSE IF Falsy(walletClient) \/ Falsy(publicClient)
                THEN WriteRefused(i, "Wallet client is required for transactions")
                ELSE /\ txError' = Null
                     /\ txState' = TxPending
                     /\ txCalls' = WithStart(txCalls,
                           [TxUnused EXCEPT !.pc = "simulate", !.refetch = Refetches(fn),
                                            !.issued = <<"simulateContract">>,
                                            !.wrote = <<TxPending>>])
                     /\ UNCHANGED txLast
    /\ UNCHANGED <<hook, call, deployVars, optionVars, mounted, infoVars, balanceVars, allowanceVars>>

transfer == \E amount \in Amounts : WriteOperation("transfer", amount)
approve == \E amount \in Amounts : WriteOperation("approve", amount)
transferFrom == \E amount \in Amounts : WriteOperation("transferFrom", amount)
mint == \E amount \in Amounts : WriteOperation("mint", amount)
burn == \E amount \in Amounts : WriteOperation("burn", amount)
pause == WriteOperation("pause", <<>>)
unpause == WriteOperation("unpause", <<>>)
transferOwnership == WriteOperation("transferOwnership", <<>>)

\* The gateway call a write invocation awaits rejects: simulateContract,
\* writeContract or waitForTransactionReceipt.
TxStepRejects(i) ==
    /\ InFlight(txCalls, i)
    /\ \E cause \in Causes(i) : TxCatch(i, cause)
    /\ UNCHANGED <<hook, call, deployVars, optionVars, mounted, ops, infoVars, balanceVars, allowanceVars>>

\* simulateContract resolved: the request is submitted (line 163).
SimulateResolves(i) ==
    /\ txCalls[i].pc = "simulate"
    /\ txCalls' = [txCalls EXCEPT ![i] =
          [@ EXCEPT !.pc = "write", !.issued = Append(@, "writeContract")]]
    /\ UNCHANGED <<hook, call, deployVars, optionVars, mounted, ops, txState, txError, txLast,
                   infoVars, balanceVars, allowanceVars>>

\* A mutant: the transaction counts as done once it is submitted.
WriteResolvesMarksSuccess(i) ==
    /\ txCalls[i].pc = "write"
    /\ txState' = TxSuccess(Hash(i))
    /\ txCalls' = [txCalls EXCEPT ![i] =
          [@ EXCEPT !.pc = "wait", !.hash = Hash(i),
                    !.issued = Append(@, "waitForTransactionReceipt"),
                    !.wrote = Append(@, TxSuccess(Hash(i)))]]
    /\ UNCHANGED <<hook, call, deployVars, optionVars, mounted, ops, txError, txLast,
                   infoVars, balanceVars, allowanceVars>>

\* writeContract resolved with the hash: lines 164-166.
WriteResolves(i) ==
    /\ txCalls[i].pc = "write"
    /\ txState' = TxConfirming(Hash(i))
    /\ txCalls' = [txCalls EXCEPT ![i] =
          [@ EXCEPT !.pc = "wait", !.hash = Hash(i),
                    !.issued = Append(@, "waitForTransactionReceipt"),
                    !.wrote = Append(@, TxConfirming(Hash(i)))]]
    /\ UNCHANGED <<hook, call, deployVars, optionVars, mounted, ops, txError, txLast,
                   infoVars, balanceVars, allowanceVars>>

\* waitForTransactionReceipt resolved: lines 167-169, then the rest of the
\* write operation that called executeTransaction (its re-reads).
ReceiptResolves(i) ==
    /\ txCalls[i].pc = "wait"
    /\ txState' = TxSuccess(txCalls[i].hash)
    /\ txCalls' = [txCalls EXCEPT ![i] = TxDone("returned")]
    /\ txLast' =
          [id |-> i, outcome |-> "returned", issued |-> txCalls[i].issued,
           wrote |-> Append(txCalls[i].wrote, TxSuccess(txCalls[i].hash)),
           overlapped |-> txCalls[i].overlapped, value |-> txCalls[i].hash,
           cause |-> Null, thrown |-> Null]
    /\ IF "tokenInfo" \in txCalls[i].refetch
       THEN /\ infoCalls' = InfoCallsAfterRefetch
            /\ tokenInfo' = TokenInfoAfterRefetch
            /\ infoLast' = InfoLastAfterRefetch
       ELSE UNCHANGED infoVars
    /\ IF "balance" \in txCalls[i].refetch
       THEN /\ balanceCalls' = BalanceCallsAfterRefetch
            /\ balance' = BalanceAfterRefetch
            /\ balanceLast' = BalanceLastAfterRefetch
       ELSE UNCHANGED balanceVars
    /\ UNCHANGED <<hook, call, deployVars, optionVars, mounted, ops, txError, allowanceVars>>

(***************************************************************************)
(* Library functions: isTokenRegistered (lib/deployment.ts) and the        *)
(* formatting of the snapshots (formatUnits of viem, as the hook calls it). *)
(* Strings are sequences of characters.                                    *)
(***************************************************************************)
NoCall == [fn |-> "none"]

\* String.prototype.toLowerCase
LowerChar(c) ==
    CASE c = "A" -> "a"
      [] c = "B" -> "b"
      [] OTHER -> c
ToLowerCase(str) == [k \in 1..Len(str) |-> LowerChar(str[k])]

\* Addresses, in the spellings a caller or the factory may use.
AddressChars == {"a", "A", "b"}
Addresses == {<<c, d>> : c \in AddressChars, d \in AddressChars}
\* Longest list getAllDeployedTokens answers with.
MaxTokens == 2
TokenLists == UNION {[1..n -> Addresses] : n \in 0..MaxTokens}

\* allTokens.some(addr => addr.toLowerCase() === tokenAddress.toLowerCase())
SomeEqualLowerCase(allTokens, tokenAddress) ==
    \E k \in 1..Len(allTokens) : ToLowerCase(allTokens[k]) = ToLowerCase(tokenAddress)

\* A mutant: the addresses are compared as they are spelled.
IsTokenRegisteredCaseSensitive ==
    /\ hook = "lib"
    /\ call.fn = "isTokenRegistered"
    /\ call.pc = "getAllDeployedTokens"
    /\ \/ \E allTokens \in TokenLists :
             call' = [call EXCEPT !.pc = "returned", !.read = "fulfilled",
                                  !.allTokens = allTokens,
                                  !.result = \E k \in 1..Len(allTokens) :
                                                allTokens[k] = call.tokenAddress]
       \/ call' = [call EXCEPT !.pc = "returned", !.read = "rejected", !.result = FALSE]
    /\ UNCHANGED <<hook, deployVars, interactionVars>>

\* isTokenRegistered once factory.getAllDeployedTokens() has settled:
\* lines 117-123.
IsTokenRegistered ==
    /\ hook = "lib"
    /\ call.fn = "isTokenRegistered"
    /\ call.pc = "getAllDeployedTokens"
    /\ \/ \E allTokens \in TokenLists :
             call' = [call EXCEPT !.pc = "returned", !.read = "fulfilled",
                                  !.allTokens = allTokens,
                                  !.result = SomeEqualLowerCase(allTokens, call.tokenAddress)]
       \/ call' = [call EXCEPT !.pc = "returned", !.read = "rejected", !.result = FALSE]
    /\ UNCHANGED <<hook, deployVars, interactionVars>>

\* constants.ts: export const TOKEN_DECIMALS = 18
TOKEN_DECIMALS == 18

Zeros(n) == [k \in 1..n |-> "0"]
\* String.prototype.padStart(n, '0')
PadStart(str, n) == IF Len(str) >= n THEN str ELSE Zeros(n - Len(str)) \o str
\* str.replace(/(0+)$/, '')
StripTrailingZeros(str) ==
    LET kept == {k \in 1..Len(str) : str[k] # "0"}
    IN  IF kept = {} THEN <<>>
        ELSE SubSeq(str, 1, CHOOSE k \in kept : \A j \in kept : j <= k)

\* formatUnits(value, decimals) of viem, for a value that is not negative,
\* given by its decimal digits.
FormatUnits(value, decimals) ==
    LET display == PadStart(value, decimals)
        integer == SubSeq(display, 1, Len(display) - decimals)
        fraction == StripTrailingZeros(
                        SubSeq(display, Len(display) - decimals + 1, Len(display)))
    IN  (IF integer = <<>> THEN <<"0">> ELSE integer)
        \o (IF fraction = <<>> THEN <<>> ELSE <<".">> \o fraction)

\* The decimals() a token may answer with.
TokenDecimals == {0, 6, 18}
\* Raw amounts (totalSupply, balanceOf, allowance), by their decimal digits.
RawAmounts ==
    { <<"0">>, <<"5">>, <<"1", "2", "0">>, <<"5">> \o Zeros(6), <<"1", "5">> \o Zeros(5),
      <<"2", "5">> \o Zeros(17), <<"1">> \o Zeros(21) }

\* The formatted fields of the snapshots the hook builds.
FormattedFields == {"tokenInfo.formattedTotalSupply", "balance.formatted", "allowance.formatted"}

\* The formatted field of a snapshot is computed: lines 80, 109 and 137.
FormatSnapshotField ==
    /\ hook = "lib"
    /\ call.fn \in FormattedFields
    /\ call.pc = "read"
    /\ call' = [call EXCEPT !.pc = "returned",
                            !.formatted =
                               IF call.fn = "tokenInfo.formattedTotalSupply"
                               THEN FormatUnits(call.value, call.decimals)
                               ELSE FormatUnits(call.value, TOKEN_DECIMALS)]
    /\ UNCHANGED <<hook, deployVars, interactionVars>>

(***************************************************************************)
(* The specification                                                       *)
(***************************************************************************)
InitDeploy ==
    /\ deploymentState = DeployIdle
    /\ deployError = Null
    /\ deployCalls = [i \in DeployIds |-> DeployUnused]
    /\ deployLast = NoLast

InitInteractions ==
    /\ mounted = FALSE
    /\ ops = 0
    /\ tokenInfo = AsyncIdle
    /\ balance = AsyncIdle
    /\ txState = TxIdle
    /\ txError = Null
    /\ infoCalls = [i \in InfoIds |-> ReadUnused]
    /\ balanceCalls = [i \in BalanceIds |-> ReadUnused]
    /\ allowanceCalls = [i \in AllowanceIds |-> ReadUnused]
    /\ txCalls = [i \in TxIds |-> TxUnused]
    /\ infoLast = NoLast
    /\ balanceLast = NoLast
    /\ allowanceLast = NoLast
    /\ txLast = NoLast
    /\ contractAddress = ContractAddress

\* A behaviour follows one hook instance; the two hooks share no state.
Init ==
    /\ InitDeploy
    /\ InitInteractions
    /\ call = NoCall
    /\ \/ /\ hook = "deploy"
          /\ privateKey \in {Undefined, Str(""), Str("0xkey")}
          /\ publicClient = Undefined
          /\ walletClient = Undefined
          /\ userAddress = Undefined
       \/ /\ hook = "interactions"
          /\ privateKey = Undefined
          /\ publicClient \in {Undefined, Client}
          /\ walletClient \in {Undefined, Client}
          /\ userAddress \in {Undefined, Str("0xUser")}

Next ==
    \/ \E i \in DeployIds : DeployToken(i)
    \/ \E i \in DeployIds : FetchRejects(i)
    \/ \E i \in DeployIds : FetchResolves(i)
    \/ \E i \in DeployIds : ErrorBodySettles(i)
    \/ \E i \in DeployIds : OkBodySettles(i)
    \/ Reset
    \/ Mount
    \/ RefetchTokenInfo
    \/ \E i \in InfoIds : InfoReadResolves(i)
    \/ \E i \in InfoIds : InfoReadRejects(i)
    \/ RefetchBalance
    \/ \E i \in BalanceIds : BalanceReadResolves(i)
    \/ \E i \in BalanceIds : BalanceReadRejects(i)
    \/ \E i \in AllowanceIds : GetAllowance(i)
    \/ \E i \in AllowanceIds : AllowanceReadSettles(i)
    \/ transfer
    \/ approve
    \/ transferFrom
    \/ mint
    \/ burn
    \/ pause
    \/ unpause
    \/ transferOwnership
    \/ \E i \in TxIds : TxStepRejects(i)
    \/ \E i \in TxIds : SimulateResolves(i)
    \/ \E i \in TxIds : WriteResolves(i)
    \/ \E i \in TxIds : ReceiptResolves(i)

Spec == Init /\ [][Next]_vars

\* A gateway call that is awaited settles.
Settle ==
    \/ \E i \in DeployIds : FetchRejects(i) \/ FetchResolves(i)
    \/ \E i \in DeployIds : ErrorBodySettles(i) \/ OkBodySettles(i)
    \/ \E i \in InfoIds : InfoReadResolves(i) \/ InfoReadRejects(i)
    \/ \E i \in BalanceIds : BalanceReadResolves(i) \/ BalanceReadRejects(i)
    \/ \E i \in AllowanceIds : AllowanceReadSettles(i)
    \/ \E i \in TxIds : TxStepRejects(i) \/ SimulateResolves(i) \/ WriteResolves(i)
                          \/ ReceiptResolves(i)

\* The hooks when no gateway call stays pending for ever.
LiveSpec == Spec /\ WF_vars(Settle)

\* The read trackers of a useERC20Interactions instance whose options change
\* from one render to the next.
InitOptions == Init /\ hook = "interactions"

NextOptions ==
    \/ Mount
    \/ OptionsChange
    \/ RefetchTokenInfo
    \/ \E i \in InfoIds : InfoReadResolves(i)
    \/ \E i \in InfoIds : InfoReadRejects(i)
    \/ RefetchBalance
    \/ \E i \in BalanceIds : BalanceReadResolves(i)
    \/ \E i \in BalanceIds : BalanceReadRejects(i)

SpecOptions == InitOptions /\ [][NextOptions]_vars

\* A call of a library function, with the arguments and the contract answers
\* it may get.
InitLib ==
    /\ InitDeploy
    /\ InitInteractions
    /\ hook = "lib"
    /\ privateKey = Undefined
    /\ publicClient = Undefined
    /\ walletClient = Undefined
    /\ userAddress = Undefined
    /\ \/ \E tokenAddress \in Addresses :
             call = [fn |-> "isTokenRegistered", pc |-> "getAllDeployedTokens",
                     tokenAddress |-> tokenAddress, read |-> "pending",
                     allTokens |-> <<>>, result |-> FALSE]
       \/ \E fn \in FormattedFields, value \in RawAmounts, decimals \in TokenDecimals :
             call = [fn |-> fn, pc |-> "read", value |-> value, decimals |-> decimals,
                     formatted |-> <<>>]

NextLib ==
    \/ IsTokenRegistered
    \/ FormatSnapshotField

SpecLib == InitLib /\ [][NextLib]_vars

(***************************************************************************)
(* Properties.  A tracker's ...Last is the record of the invocation that   *)
(* completed in the step just taken whenever it differs from the step      *)
(* before.                                                                 *)
(***************************************************************************)
\* An invocation that reached its gateway and settled (was not turned away).
Settled(outcome) == outcome \in {"returned", "threw", "success", "error"}

NoneInFlight(calls) == \A i \in DOMAIN calls : ~InFlight(calls, i)

\* The invocation of last completes in this step, after a later-started
\* invocation of the same tracker has settled.
SettlesAfterLater(calls, last) ==
    /\ last.id # 0
    /\ Settled(last.outcome)
    /\ \E j \in DOMAIN calls :
          j > last.id /\ calls[j].pc = "done" /\ Settled(calls[j].outcome)

\* The state a completed invocation's own result or error stands for.
DeployOutcome(last) ==
    IF last.outcome = "returned" THEN DeploySuccess(last.value) ELSE DeployFailed(last.thrown)
TxOutcome(last) ==
    IF last.outcome = "returned" THEN TxSuccess(Hash(last.id)) ELSE TxFailed(last.thrown)
InfoOutcome(last) ==
    IF last.outcome = "success" THEN AsyncSuccess(TokenSnapshot(last.id)) ELSE AsyncError(last.thrown)
BalanceOutcome(last) ==
    IF last.outcome = "success" THEN AsyncSuccess(BalanceSnapshot(last.id)) ELSE AsyncError(last.thrown)

\* C1: last-settlement-wins.  When invocation A of a tracker settles after an
\* invocation B that started later has settled, the tracked state right then
\* is A's outcome (A's result or A's error), on each of the four trackers:
\* deploymentState, txState, tokenInfo and balance.
C1_LastSettlementWins ==
    [][ /\ (deployLast' # deployLast /\ SettlesAfterLater(deployCalls', deployLast'))
            => deploymentState' = DeployOutcome(deployLast')
        /\ (txLast' # txLast /\ SettlesAfterLater(txCalls', txLast'))
            => txState' = TxOutcome(txLast')
        /\ (infoLast' # infoLast /\ SettlesAfterLater(infoCalls', infoLast'))
            => tokenInfo' = InfoOutcome(infoLast')
        /\ (balanceLast' # balanceLast /\ SettlesAfterLater(balanceCalls', balanceLast'))
            => balance' = BalanceOutcome(balanceLast') ]_vars

\* Both read trackers hold the result of their first invocation, which
\* settled after the second one had failed.
C1_Witness ==
    /\ balanceLast.id = 1 /\ balanceCalls[2].outcome = "error"
    /\ balance = AsyncSuccess(BalanceSnapshot(1))
    /\ infoLast.id = 1 /\ infoCalls[2].outcome = "error"
    /\ tokenInfo = AsyncSuccess(TokenSnapshot(1))

\* A deployToken call is made in this step.
DeployTokenCalled == Unused(deployCalls') # Unused(deployCalls)
\* A write operation is called in this step.
WriteOperationCalled == Unused(txCalls') # Unused(txCalls)

\* C2: when reset() was called while a deployToken call is in flight (the
\* state is idle with a call still awaiting), deploymentState stays idle and
\* error stays null until the next deployToken call.
C2_ResetDiscardsInFlight ==
    [][ ( /\ deploymentState = DeployIdle
          /\ deployError = Null
          /\ \E i \in DeployIds : InFlight(deployCalls, i)
          /\ ~DeployTokenCalled )
        => (deploymentState' = DeployIdle /\ deployError' = Null) ]_vars

\* The ways a settled deploymentState may change: deployToken or reset.
DeployStartOrReset ==
    \/ deploymentState' = deploymentState
    \/ (DeployTokenCalled /\ deploymentState' = DeployDeploying)
    \/ (deploymentState' = DeployIdle /\ deployError' = Null /\ deployCalls' = deployCalls)
\* The way a settled txState may change: the next write operation.
TxStart ==
    \/ txState' = txState
    \/ (WriteOperationCalled /\ txState' = TxPending)

\* C3 as stated: once deploymentState is success or error it changes only
\* by deployToken or reset, and once txState is success or error it changes
\* only by the next write operation.
C3_SettledUntilStartOrReset ==
    [][ /\ deploymentState.status \in {"success", "error"} => DeployStartOrReset
        /\ txState.status \in {"success", "error"} => TxStart ]_vars

\* C3 amended: the same, for a tracker none of whose invocations is still
\* in flight.
C3_SettledAndQuietUntilStartOrReset ==
    [][ /\ (deploymentState.status \in {"success", "error"} /\ NoneInFlight(deployCalls))
            => DeployStartOrReset
        /\ (txState.status \in {"success", "error"} /\ NoneInFlight(txCalls))
            => TxStart ]_vars

\* txState still holds the success of the first write operation after a
\* second one was called and turned away.
C3_Witness ==
    /\ txState = TxSuccess(Hash(1))
    /\ NoneInFlight(txCalls)
    /\ txLast.id = 2
    /\ txLast.outcome = "refused"

\* C4: when a single (not overlapped) deployToken or write operation
\* succeeds, the state right after is success with exactly the value the
\* gateway produced (the DeployTokenResult of deployERC20TokenViaAPI, the hash
\* of writeContract), and that value is what the caller gets.
C4_SuccessCarriesGatewayValue ==
    [][ /\ (deployLast' # deployLast /\ deployLast'.outcome = "returned" /\ ~deployLast'.overlapped)
            => /\ deploymentState' = DeploySuccess(DeployResult(deployLast'.body))
               /\ deployLast'.value = DeployResult(deployLast'.body)
        /\ (txLast' # txLast /\ txLast'.outcome = "returned" /\ ~txLast'.overlapped)
            => /\ txState' = TxSuccess(Hash(txLast'.id))
               /\ txLast'.value = Hash(txLast'.id) ]_vars

\* A lone deployToken returned the result that deploymentState carries.
C4_Witness ==
    /\ deployLast.id = 1
    /\ deployLast.outcome = "returned"
    /\ ~deployLast.overlapped
    /\ deploymentState = DeploySuccess(deployLast.value)
    /\ deployLast.value.tokenAddress = StrOf("0xToken", 1)

\* The error a caught value stands for: itself when it is an Error, else
\* new Error(String(cause)).
Raised(last) ==
    IF last.cause.t = "Error"
    THEN last.cause
    ELSE [t |-> "Error", message |-> String(last.cause), ref |-> last.id]

\* C5: when a single (not overlapped) deployToken or write operation fails at
\* its gateway, the state right after is error with exactly the error raised
\* (a cause that is no Error wrapped as Error(String(cause))), the hook's
\* error field holds the same error, the caller gets it, and the busy flag is
\* false.
C5_FailureCarriesRaisedError ==
    [][ /\ (deployLast' # deployLast /\ deployLast'.outcome = "threw" /\ ~deployLast'.overlapped)
            => /\ deploymentState' = DeployFailed(Raised(deployLast'))
               /\ deployError' = Raised(deployLast')
               /\ deployLast'.thrown = Raised(deployLast')
               /\ ~isDeploying'
        /\ (txLast' # txLast /\ txLast'.outcome = "threw" /\ ~txLast'.overlapped)
            => /\ txState' = TxFailed(Raised(txLast'))
               /\ txError' = Raised(txLast')
               /\ txLast'.thrown = Raised(txLast')
               /\ ~isLoading' ]_vars

\* A lone write operation failed with a cause that is no Error, and txState
\* carries the Error wrapped around it.
C5_Witness ==
    /\ txLast.id = 1
    /\ txLast.outcome = "threw"
    /\ txLast.cause.t = "object"
    /\ txState = TxFailed(NewError("[object Object]", 1))
    /\ txError = txState.error
    /\ ~isLoading

\* C6: whenever a deployToken call or a write operation rejects, the tracked
\* state right after the rejection is error carrying the raised error.
C6_EveryRejectionEndsInError ==
    [][ /\ (deployLast' # deployLast /\ deployLast'.outcome \in {"threw", "refused"})
            => deploymentState' = DeployFailed(deployLast'.thrown)
        /\ (txLast' # txLast /\ txLast'.outcome \in {"threw", "refused"})
            => txState' = TxFailed(txLast'.thrown) ]_vars

\* A getAllowance call is made in this step.
GetAllowanceCalled == Unused(allowanceCalls') # Unused(allowanceCalls)

\* The invocation of calls that completes in this step is a new one that was
\* turned away with an Error, and no gateway request was issued for it.
TurnedAway(calls, callsAfter, lastAfter) ==
    /\ lastAfter.id = NextId(calls)
    /\ lastAfter.outcome = "refused"
    /\ InstanceofError(lastAfter.thrown)
    /\ lastAfter.issued = <<>>
    /\ \A j \in DOMAIN calls : callsAfter[j].issued = calls[j].issued

\* C7: deployToken without a private key, a write operation without a wallet
\* client or a public client, and getAllowance without a public client or a
\* user address each raise an error without issuing any gateway request.
C7_PreconditionErrorsBeforeAnyRequest ==
    [][ /\ (DeployTokenCalled /\ Falsy(privateKey))
            => TurnedAway(deployCalls, deployCalls', deployLast')
        /\ (WriteOperationCalled /\ (Falsy(walletClient) \/ Falsy(publicClient)))
            => /\ TurnedAway(txCalls, txCalls', txLast')
               /\ UNCHANGED <<infoCalls, balanceCalls, allowanceCalls>>
        /\ (GetAllowanceCalled /\ (Falsy(publicClient) \/ Falsy(userAddress)))
            => /\ TurnedAway(allowanceCalls, allowanceCalls', allowanceLast')
               /\ UNCHANGED <<infoCalls, balanceCalls, txCalls>> ]_vars

\* getAllowance was called with a public client but no user address, and
\* was turned away with nothing issued.
C7_Witness ==
    /\ ~Falsy(publicClient)
    /\ Falsy(userAddress)
    /\ allowanceLast.id = 1
    /\ allowanceLast.outcome = "refused"
    /\ allowanceLast.issued = <<>>

\* A body { error: <non-empty string> }.
HasErrorMessage(body) ==
    /\ body.t = "object"
    /\ body.error.t = "string"
    /\ body.error.s # ""

\* C8: when the deployment service answers with a non-2xx status and a body
\* { error: <non-empty string> }, deployToken ends with deploymentState error
\* whose error message is exactly that string, and the hook's error field
\* carries the same error.
C8_ServiceErrorMessageVerbatim ==
    [][ ( /\ deployLast' # deployLast
          /\ deployLast'.status \in ErrStatuses
          /\ HasErrorMessage(deployLast'.body) )
        => /\ deploymentState'.status = "error"
           /\ deploymentState'.error.message = deployLast'.body.error.s
           /\ deployError' = deploymentState'.error
           /\ deployLast'.thrown = deploymentState'.error ]_vars

\* The service answered 500 with { error: "insufficient funds" }.
C8_Witness ==
    /\ deployLast.id # 0
    /\ deployLast.status = 500
    /\ HasErrorMessage(deployLast.body)
    /\ deploymentState.status = "error"
    /\ deploymentState.error.message = "insufficient funds"
    /\ deployError = deploymentState.error

AllSteps == <<"simulateContract", "writeContract", "waitForTransactionReceipt">>

\* C9: a write operation issues simulate, then submit, then the wait for the
\* receipt; it has written only pending until the submit returned the hash,
\* pending and confirming(hash) while it waits for the receipt, and
\* pending, confirming(hash), success(hash) with the same hash when it
\* returns; for a single (not overlapped) write operation txState is the
\* state it wrote last.
C9_SimulateSubmitWaitInOrder ==
    [][ /\ \A i \in TxIds :
            /\ txCalls'[i].pc = "simulate"
                => /\ txCalls'[i].issued = <<"simulateContract">>
                   /\ txCalls'[i].wrote = <<TxPending>>
            /\ txCalls'[i].pc = "write"
                => /\ txCalls'[i].issued = <<"simulateContract", "writeContract">>
                   /\ txCalls'[i].wrote = <<TxPending>>
            /\ txCalls'[i].pc = "wait"
                => /\ txCalls'[i].issued = AllSteps
                   /\ txCalls'[i].wrote = <<TxPending, TxConfirming(Hash(i))>>
            /\ (InFlight(txCalls', i) /\ ~txCalls'[i].overlapped)
                => txState' = txCalls'[i].wrote[Len(txCalls'[i].wrote)]
        /\ (txLast' # txLast /\ txLast'.outcome = "returned")
            => /\ txCalls[txLast'.id].pc = "wait"
               /\ txLast'.issued = AllSteps
               /\ txLast'.wrote = <<TxPending, TxConfirming(Hash(txLast'.id)),
                                    TxSuccess(Hash(txLast'.id))>>
               /\ ~txLast'.overlapped => txState' = TxSuccess(Hash(txLast'.id)) ]_vars

\* A lone write operation went through its three steps and three states.
C9_Witness ==
    /\ txLast.id = 1
    /\ txLast.outcome = "returned"
    /\ ~txLast.overlapped
    /\ txLast.issued = AllSteps
    /\ txLast.wrote = <<TxPending, TxConfirming(Hash(1)), TxSuccess(Hash(1))>>
    /\ txState = TxSuccess(Hash(1))

\* C10: when a step of a write operation fails, the operation is over with
\* no later step issued (a failed simulation: nothing submitted or awaited; a
\* failed submission: nothing awaited), txState is error with the raised
\* error, and the operation never wrote success.
C10_StepFailureAborts ==
    [][ (txLast' # txLast /\ txLast'.outcome = "threw")
        => LET i == txLast'.id
           IN  /\ txCalls'[i].pc = "done"
               /\ txState' = TxFailed(txLast'.thrown)
               /\ txError' = txLast'.thrown
               /\ \A k \in 1..Len(txLast'.wrote) : txLast'.wrote[k].status # "success"
               /\ txCalls[i].pc = "simulate" => txLast'.issued = <<"simulateContract">>
               /\ txCalls[i].pc = "write"
                    => txLast'.issued = <<"simulateContract", "writeContract">>
               /\ txCalls[i].pc = "wait" => txLast'.issued = AllSteps ]_vars

\* A write operation failed in its simulation: nothing was submitted.
C10_Witness ==
    /\ txLast.id # 0
    /\ txLast.outcome = "threw"
    /\ txLast.issued = <<"simulateContract">>
    /\ txState = TxFailed(txLast.thrown)
    /\ txCalls[txLast.id].pc = "done"

WriteOperations ==
    {"transfer", "approve", "transferFrom", "mint", "burn", "pause", "unpause",
     "transferOwnership"}

\* A refetchTokenInfo / refetchBalance call is made in this step.
RefetchTokenInfoCalled == Unused(infoCalls') # Unused(infoCalls)
RefetchBalanceCalled == Unused(balanceCalls') # Unused(balanceCalls)

\* C11: a successful transfer, transferFrom, mint or burn calls
\* refetchBalance and a successful mint, burn, pause, unpause or
\* transferOwnership calls refetchTokenInfo, in the step in which the receipt
\* wait resolved and not before; a write operation that fails or is turned
\* away starts no re-read.
C11_RefetchAfterConfirmedWrite ==
    [][ /\ \A fn \in {"transfer", "transferFrom", "mint", "burn"} : "balance" \in Refetches(fn)
        /\ \A fn \in {"mint", "burn", "pause", "unpause", "transferOwnership"} :
              "tokenInfo" \in Refetches(fn)
        /\ (txLast' # txLast /\ txLast'.outcome = "returned")
            => /\ txCalls[txLast'.id].pc = "wait"
               /\ RefetchBalanceCalled <=> "balance" \in txCalls[txLast'.id].refetch
               /\ RefetchTokenInfoCalled <=> "tokenInfo" \in txCalls[txLast'.id].refetch
        /\ (txCalls' # txCalls /\ ~(txLast' # txLast /\ txLast'.outcome = "returned"))
            => (~RefetchBalanceCalled /\ ~RefetchTokenInfoCalled) ]_vars

\* The only operation called was a write operation; it returned, and a second
\* refetchTokenInfo and a second refetchBalance (after those of the mount)
\* have been called.
C11_Witness ==
    /\ ops = 1
    /\ txLast.id = 1
    /\ txLast.outcome = "returned"
    /\ infoCalls[2].pc # "unused"
    /\ balanceCalls[2].pc # "unused"

\* C12: a step of useERC20Deploy that is no deployToken call and no
\* settlement of one (that is: reset(), in whatever state) leaves
\* deploymentState idle, error null and isDeploying false.
C12_ResetYieldsIdle ==
    [][ (hook = "deploy" /\ deployCalls' = deployCalls)
        => (deploymentState' = DeployIdle /\ deployError' = Null /\ ~isDeploying') ]_vars

\* reset() was called after a deployToken call had failed, while another one
\* is in flight.
C12_Witness ==
    /\ deploymentState = DeployIdle
    /\ deployError = Null
    /\ deployLast.id # 0
    /\ deployLast.outcome = "threw"
    /\ \E i \in DeployIds : InFlight(deployCalls, i)

\* The number of invocations in flight.
InFlightCount(calls) == Cardinality({i \in DOMAIN calls : InFlight(calls, i)})

\* C15: deployToken (with a private key) called while deploymentState is
\* deploying, or a write operation called while txState is pending or
\* confirming, is not turned away for that (a write operation only for an
\* amount parseUnits rejects), issues its own gateway call next to the ones
\* in flight, and leaves the busy flag true.
C15_StartWhileInFlight ==
    [][ /\ (DeployTokenCalled /\ ~Falsy(privateKey) /\ deploymentState.status = "deploying")
            => /\ deployCalls'[NextId(deployCalls)].pc = "fetch"
               /\ deployCalls'[NextId(deployCalls)].issued = <<"POST /deploy-token">>
               /\ InFlightCount(deployCalls') = InFlightCount(deployCalls) + 1
               /\ isDeploying'
        /\ (WriteOperationCalled /\ txState.status \in {"pending", "confirming"})
            => /\ isLoading'
               /\ \/ /\ txCalls'[NextId(txCalls)].pc = "simulate"
                     /\ txCalls'[NextId(txCalls)].issued = <<"simulateContract">>
                     /\ InFlightCount(txCalls') = InFlightCount(txCalls) + 1
                  \/ /\ txLast'.id = NextId(txCalls)
                     /\ txLast'.thrown.message = "InvalidDecimalNumberError" ]_vars

\* Two write operations are in flight together, the first one already
\* confirming when the second was called.
C15_Witness ==
    /\ txCalls[1].pc = "wait"
    /\ txCalls[2].pc = "simulate"
    /\ txCalls[2].overlapped
    /\ isLoading

\* C18: txState never goes to confirming from idle, success or error.
C18_ConfirmingOnlyWhileInFlight ==
    [][ (txState'.status = "confirming" /\ txState' # txState)
        => txState.status \in {"pending", "confirming"} ]_vars

\* The fields of a token snapshot that are read from the contract.
SnapshotReads == {"name", "symbol", "decimals", "totalSupply", "owner", "paused"}

\* data holds, in each field, what invocation i read for that field.
WhollyFrom(data, i) ==
    /\ \A f \in SnapshotReads : data[f] = ReadResult(f, i)
    /\ data.formattedTotalSupply.value = ReadResult("totalSupply", i)
    /\ data.formattedTotalSupply.decimals = ReadResult("decimals", i)

\* C19: whenever tokenInfo is success its name, symbol, decimals,
\* totalSupply, owner and paused are the six reads of one refetchTokenInfo
\* invocation; it is set to success only by the step in which the last of an
\* invocation's six reads is fulfilled (the other five fulfilled before);
\* when a read fails tokenInfo becomes error and carries no snapshot field.
C19_SnapshotWholesale ==
    [][ /\ tokenInfo'.status = "success"
            => \E i \in InfoIds : WhollyFrom(tokenInfo'.data, i)
        /\ (tokenInfo' # tokenInfo /\ tokenInfo'.status = "success")
            => \E i \in InfoIds :
                  /\ infoCalls[i].pc = "read"
                  /\ infoCalls[i].remaining = 1
                  /\ infoCalls[i].issued = TokenInfoReads
                  /\ infoCalls'[i].pc = "done"
                  /\ WhollyFrom(tokenInfo'.data, i)
        /\ (infoLast' # infoLast /\ infoLast'.outcome = "error")
            => /\ tokenInfo' = AsyncError(infoLast'.thrown)
               /\ DOMAIN tokenInfo' = {"status", "error"} ]_vars

\* tokenInfo holds the snapshot of the second refetchTokenInfo while the
\* first one has part of its reads fulfilled.
C19_Witness ==
    /\ tokenInfo = AsyncSuccess(TokenSnapshot(2))
    /\ infoCalls[1].pc = "read"
    /\ infoCalls[1].remaining \in 1..5

\* C13: refetchBalance called by a render without a user address or without
\* a public client sets balance to idle whatever it was, issues no balanceOf
\* read, raises nothing and records no error.
C13_BalanceWithoutAddressIsIdle ==
    [][ (RefetchBalanceCalled /\ (Falsy(publicClient') \/ Falsy(userAddress')))
        => /\ balance' = AsyncIdle
           /\ balanceLast'.id = NextId(balanceCalls)
           /\ balanceLast'.outcome = "skipped"
           /\ balanceLast'.issued = <<>>
           /\ balanceLast'.thrown = Null
           /\ \A j \in BalanceIds : balanceCalls'[j].issued = balanceCalls[j].issued
           /\ txError' = txError ]_vars

\* The first refetchBalance had delivered a balance; the user address went
\* away and the second one left balance idle.
C13_Witness ==
    /\ Falsy(userAddress)
    /\ balanceCalls[1].outcome = "success"
    /\ balanceLast.id = 2
    /\ balanceLast.outcome = "skipped"
    /\ balance = AsyncIdle

\* C14: after refetchTokenInfo is called by a render without a public
\* client, tokenInfo is idle whatever it was, and no read is issued.
C14_TokenInfoWithoutClientIsIdle ==
    [][ (RefetchTokenInfoCalled /\ Falsy(publicClient'))
        => /\ tokenInfo' = AsyncIdle
           /\ \A j \in InfoIds : infoCalls'[j].issued = infoCalls[j].issued ]_vars

\* Two addresses that differ at most in the case of their letters.
SameIgnoringCase(a, b) ==
    /\ Len(a) = Len(b)
    /\ \A k \in 1..Len(a) :
          \/ a[k] = b[k]
          \/ {a[k], b[k]} \in {{"a", "A"}, {"b", "B"}}

\* C16: isTokenRegistered raises nothing; it returns false when
\* getAllDeployedTokens failed, and otherwise true exactly when the list
\* holds the token address up to the case of its letters.
C16_IsTokenRegisteredNeverThrows ==
    (call.fn = "isTokenRegistered" /\ call.pc = "returned")
    => /\ call.result \in BOOLEAN
       /\ call.read = "rejected" => call.result = FALSE
       /\ call.read = "fulfilled"
            => (call.result <=> \E k \in 1..Len(call.allTokens) :
                                   SameIgnoringCase(call.allTokens[k], call.tokenAddress))

\* The factory lists the token in another spelling, and the answer is true.
C16_Witness ==
    /\ call.fn = "isTokenRegistered"
    /\ call.pc = "returned"
    /\ call.tokenAddress = <<"a", "b">>
    /\ call.allTokens = << <<"b", "b">>, <<"A", "b">> >>
    /\ call.result = TRUE

\* str without its leading zeros ("0" for zero).
StripLeadingZeros(str) ==
    LET kept == {k \in 1..Len(str) : str[k] # "0"}
    IN  IF kept = {} THEN <<"0">>
        ELSE SubSeq(str, CHOOSE k \in kept : \A j \in kept : k <= j, Len(str))

\* The decimal string formatted denotes raw / 10^decimals: its digits, with
\* the fraction filled up to decimals places, are the digits of raw.
Denotes(formatted, raw, decimals) ==
    LET dots == {k \in 1..Len(formatted) : formatted[k] = "."}
        dot == IF dots = {} THEN Len(formatted) + 1 ELSE CHOOSE k \in dots : TRUE
        integer == SubSeq(formatted, 1, dot - 1)
        fraction == SubSeq(formatted, dot + 1, Len(formatted))
    IN  /\ Cardinality(dots) <= 1
        /\ integer # <<>>
        /\ Len(fraction) <= decimals
        /\ StripLeadingZeros(integer \o fraction \o Zeros(decimals - Len(fraction))) = raw

\* C17: the formatted string of every snapshot (formattedTotalSupply,
\* balance.formatted, the allowance's formatted) denotes the raw amount
\* divided by 10^decimals, decimals being what the token's decimals() answers.
C17_FormattedByTokenDecimals ==
    (call.fn \in FormattedFields /\ call.pc = "returned")
    => Denotes(call.formatted, call.value, call.decimals)

\* No tracker shows an operation under way.
AtRest ==
    /\ ~isDeploying
    /\ ~isLoading
    /\ tokenInfo.status # "loading"
    /\ balance.status # "loading"

\* C20: when every gateway call eventually settles and no further
\* operation is started, every tracker leaves its in-flight state for good:
\* deploymentState is not deploying, txState neither pending nor confirming,
\* tokenInfo and balance not loading, isDeploying and isLoading false.
C20_EventuallyAtRest == <>[]AtRest

\* Every operation the component called has settled and the trackers are at
\* rest, the write tracker after a failure and the read trackers after a
\* re-read.
C20_Witness ==
    /\ ops = MaxOps
    /\ NoneInFlight(txCalls) /\ NoneInFlight(infoCalls) /\ NoneInFlight(balanceCalls)
    /\ txLast.id = 2
    /\ txLast.outcome = "threw"
    /\ txState.status = "error"
    /\ infoLast.id = 2
    /\ AtRest

NoRepeats(s) == \A j, k \in 1..Len(s) : j # k => s[j] # s[k]

\* The gateway calls of invocation i of calls that this step adds.
IssuedInStep(calls, callsAfter, i) == Len(callsAfter[i].issued) > Len(calls[i].issued)

\* C21: nothing is retried. A deployToken invocation issues exactly one
\* POST /deploy-token; a write invocation issues each of simulate, submit and
\* receipt wait at most once; an invocation that is over (failed or not)
\* issues nothing more, the step in which an invocation fails issues nothing,
\* and a gateway call is only ever issued by a call of the caller or by the
\* next step of an invocation that is still in flight.
C21_NoRetry ==
    [][ /\ \A i \in DeployIds :
            /\ InFlight(deployCalls', i) => deployCalls'[i].issued = <<"POST /deploy-token">>
            /\ deployCalls[i].pc = "done" => deployCalls'[i] = deployCalls[i]
            /\ IssuedInStep(deployCalls, deployCalls', i)
                 => (DeployTokenCalled /\ i = NextId(deployCalls))
        /\ (deployLast' # deployLast /\ Settled(deployLast'.outcome))
            => deployLast'.issued = <<"POST /deploy-token">>
        /\ \A i \in TxIds :
            /\ NoRepeats(txCalls'[i].issued)
            /\ \A k \in 1..Len(txCalls'[i].issued) : txCalls'[i].issued[k] = AllSteps[k]
            /\ txCalls[i].pc = "done" => txCalls'[i] = txCalls[i]
            /\ IssuedInStep(txCalls, txCalls', i)
                 => \/ (WriteOperationCalled /\ i = NextId(txCalls))
                    \/ (InFlight(txCalls, i) /\ InFlight(txCalls', i) /\ txLast' = txLast)
        /\ (txLast' # txLast /\ Settled(txLast'.outcome))
            => /\ NoRepeats(txLast'.issued)
               /\ Len(txLast'.issued) \in 1..3
        /\ (deployLast' # deployLast /\ deployLast'.outcome = "threw")
            => \A j \in DeployIds : ~IssuedInStep(deployCalls, deployCalls', j)
        /\ (txLast' # txLast /\ txLast'.outcome = "threw")
            => \A j \in TxIds : ~IssuedInStep(txCalls, txCalls', j) ]_vars

\* A deployToken invocation failed after its one request, nothing is in
\* flight and the caller has not called again.
C21_Witness ==
    /\ deployLast.id = 1
    /\ deployLast.outcome = "threw"
    /\ deployLast.issued = <<"POST /deploy-token">>
    /\ NoneInFlight(deployCalls)
    /\ Unused(deployCalls) = DeployIds \ {1}
    /\ deploymentState.status = "error"

\* The fields of a DeployTokenResult.
ResultFields ==
    {"tokenAddress", "txHash", "success", "deployOutput", "initOutput", "registerOutput"}

\* C22: for every 2xx response the DeployTokenResult that deployToken returns
\* and stores in deploymentState has each of tokenAddress, txHash, success,
\* deployOutput, initOutput and registerOutput equal to the field of the
\* response body, an absent field staying absent.
C22_ResultVerbatim ==
    (deployLast.id # 0 /\ deployLast.outcome = "returned")
        => /\ deployLast.status = 200
           /\ deployLast.wrote[Len(deployLast.wrote)] = DeploySuccess(deployLast.value)
           /\ \A f \in ResultFields : deployLast.value[f] = deployLast.body[f]

\* C23: the error field is non-null exactly when the state is error, and is
\* then the error the state carries, in useERC20Deploy (error,
\* deploymentState) and in useERC20Interactions (error, txState).
C23_ErrorFieldMatchesState ==
    /\ (deployError # Null) <=> (deploymentState.status = "error")
    /\ deploymentState.status = "error" => deployError = deploymentState.error
    /\ (txError # Null) <=> (txState.status = "error")
    /\ txState.status = "error" => txError = txState.error

\* C24: whenever deploymentState is success the result it carries has
\* success true; a response whose success flag is false never leads to the
\* success state.
C24_SuccessStateMeansSuccessFlag ==
    deploymentState.status = "success" => deploymentState.result.success = Bool(TRUE)

\* C25: whenever tokenInfo is success and no refetchTokenInfo is pending, the
\* snapshot's address is the hook's current contractAddress, also after
\* contractAddress changed while an earlier refetch was in flight; and a
\* settled balance with no refetchBalance pending was read for the current
\* contractAddress and userAddress.
C25_SettledDataOfCurrentOptions ==
    /\ (tokenInfo.status = "success" /\ NoneInFlight(infoCalls))
         => tokenInfo.data.address = contractAddress
    /\ (balance.status = "success" /\ NoneInFlight(balanceCalls))
         => /\ balanceLast.address = contractAddress
            /\ balanceLast.account = userAddress

\* C26: the sub-stages activating, initializing and registering are never
\* reached: deploymentState.status is always one of idle, deploying, success
\* and error, and isDeploying is true exactly when it is deploying.
C26_NoSubStages ==
    /\ deploymentState.status \in {"idle", "deploying", "success", "error"}
    /\ isDeploying <=> (deploymentState.status = "deploying")

\* After one deployment succeeded a second one has its response and awaits
\* the body: the state is still deploying.
C26_Witness ==
    /\ deployLast.id = 1
    /\ deployLast.outcome = "returned"
    /\ deployCalls[2].pc = "json"
    /\ deployCalls[2].ok
    /\ deploymentState = DeployDeploying
    /\ isDeploying

====
